---------------------------- MODULE Spec2Model ----------------------------
(***************************************************************************)
(* The Media Source Extensions player of src/frontend/app.js (the          *)
(* player-mse.js part, lines 304-457) as a state machine.                  *)
(*                                                                         *)
(* The program's state is the module-level variables of lines 308-317.     *)
(* The runtime the player talks to (the audio element, MediaSource and     *)
(* SourceBuffer objects, fetch) is modelled by what the player observes of *)
(* it: readyState, updating, buffered.start(0), currentTime, and the       *)
(* events and promise completions it delivers.                             *)
(*                                                                         *)
(* Scheduling is the JavaScript event loop: one task at a time; an `await` *)
(* on an already-resolved value resumes in a microtask, and all microtasks *)
(* run before the next task starts.  Every exported function is called     *)
(* from its own task (one UI event handler, app.js lines 97-264).          *)
(* pauseTrack and resumeTrack (lines 395-401) only pause and resume the     *)
(* audio element and touch none of this state.                             *)
(***************************************************************************)
EXTENDS Integers, Sequences, FiniteSets, TLC

\* ----------------------------------------------------------------- bounds
MaxSessions  == 2       \* startTrack / nextTrack / prevTrack calls explored
MaxFetches   == 3       \* segment requests explored
WideSessions == 3       \* the same calls explored with one input of each kind

\* ------------------------------------------------------ program constants
SEGMENT_SIZE == 262144  \* 256 * 1024
TrimWindow   == 30      \* trimBuffer(30)
TrimMargin   == 5       \* current - start - 5

Tracks   == {"T1", "T2"}
Srcs     == {"yt"}
NoTrack  == "null"      \* trackId = null / srcParam = null
Null     == 0           \* mediaSource = null / sourceBuffer = null
DirectUrl == -1         \* audioEl.src is the /api/stream URL (no MediaSource)

\* Sizes of a successful response body: a full window, or a short last one.
BodySizes == {SEGMENT_SIZE, 100000}
\* HTTP statuses a segment request can end with.
Statuses  == {200, 206, 204, 404}
\* A response with a null body status has no body: arrayBuffer() is empty.
NullBody(status) == status = 204
\* Values of audioEl.currentTime (seconds) that are sampled.
Times     == {0, 5, 30, 40}
\* The values sampled over WideSessions sessions: one that trims a buffer
\* starting at 0, and one that trims what that leaves.
WideTimes == {0, 40, 75}

SessionIds == 1..WideSessions
\* Each MediaSource gets one sourceopen event and each event adds at most one
\* SourceBuffer, so there are never more buffers than sessions.
BufferIds  == SessionIds

VARIABLES
  \* program state, app.js lines 308-317
  mediaSource, sourceBuffer, trackId, srcParam, nextSegmentStart,
  isAppending, fetching, repeatMode, stopped,
  \* runtime state
  hasMSE,        \* window.MediaSource exists
  audioSrc,      \* what audioEl.src designates: Null, DirectUrl or a MediaSource
  currentTime,   \* audioEl.currentTime
  msState,       \* MediaSource id -> "none" | "closed" | "open" | "ended"
  openQ,         \* queued sourceopen events (MediaSource ids), first in first out
  sb,            \* SourceBuffer id -> its record
  nSB,           \* SourceBuffer objects created so far
  reqs,          \* every segment request issued, in order, with its progress
  mq,            \* the microtask queue: continuations after an await
  \* history
  sess,          \* session id -> track, status and signals of that session
  nSess,         \* sessions created so far
  call,          \* the exported call of the current task, with its signals
  ev,            \* what the handler run by the last step did
  halted,        \* a request of the latest session has failed
  \* what is explored: every call and input over MaxSessions sessions, or
  \* (wide) startTrack calls and one input of each kind, with requests that
  \* succeed, over WideSessions sessions
  wide

vars == << mediaSource, sourceBuffer, trackId, srcParam, nextSegmentStart,
           isAppending, fetching, repeatMode, stopped,
           hasMSE, audioSrc, currentTime, msState, openQ, sb, nSB, reqs, mq,
           sess, nSess, call, ev, halted, wide >>

\* ------------------------------------------------------------ state record
\* Handlers are sequential code: each is an operator from the state before
\* to the state after, applied to this record of all variables.
Cur ==
  [ mediaSource |-> mediaSource, sourceBuffer |-> sourceBuffer,
    trackId |-> trackId, srcParam |-> srcParam,
    nextSegmentStart |-> nextSegmentStart, isAppending |-> isAppending,
    fetching |-> fetching, repeatMode |-> repeatMode, stopped |-> stopped,
    hasMSE |-> hasMSE, audioSrc |-> audioSrc, currentTime |-> currentTime,
    msState |-> msState, openQ |-> openQ, sb |-> sb, nSB |-> nSB,
    reqs |-> reqs, mq |-> mq, sess |-> sess, nSess |-> nSess,
    call |-> call, ev |-> ev, halted |-> halted ]

Commit(s) ==
  /\ mediaSource' = s.mediaSource
  /\ sourceBuffer' = s.sourceBuffer
  /\ trackId' = s.trackId
  /\ srcParam' = s.srcParam
  /\ nextSegmentStart' = s.nextSegmentStart
  /\ isAppending' = s.isAppending
  /\ fetching' = s.fetching
  /\ repeatMode' = s.repeatMode
  /\ stopped' = s.stopped
  /\ hasMSE' = s.hasMSE
  /\ audioSrc' = s.audioSrc
  /\ currentTime' = s.currentTime
  /\ msState' = s.msState
  /\ openQ' = s.openQ
  /\ sb' = s.sb
  /\ nSB' = s.nSB
  /\ reqs' = s.reqs
  /\ mq' = s.mq
  /\ sess' = s.sess
  /\ nSess' = s.nSess
  /\ call' = s.call
  /\ ev' = s.ev
  /\ halted' = s.halted
  /\ wide' = wide

\* The player's own variables, as one value (a snapshot of lines 308-317).
Player(s) ==
  [ mediaSource |-> s.mediaSource, sourceBuffer |-> s.sourceBuffer,
    trackId |-> s.trackId, srcParam |-> s.srcParam,
    nextSegmentStart |-> s.nextSegmentStart, isAppending |-> s.isAppending,
    fetching |-> s.fetching, repeatMode |-> s.repeatMode,
    stopped |-> s.stopped ]

NoCall == [ op |-> "none" ]
NoTrim == [ called |-> FALSE ]
\* A handler's record: which callback ran, the session it belongs to, and the
\* fetch / appendBuffer / remove calls it made.
Quiet(h, by) ==
  [ h |-> h, by |-> by, fetch |-> 0, append |-> "none", appendTo |-> Null,
    appendReq |-> 0, n |-> 0, before |-> 0, status |-> 0, failed |-> FALSE,
    remove |-> "none", trim |-> NoTrim ]

NoBuffer ==
  [ ms |-> Null, attached |-> FALSE, updating |-> "no", pend |-> 0, from |-> 0,
    events |-> 0, bufStart |-> -1, data |-> << >> ]
NoSession == [ track |-> NoTrack, st |-> "none" ]


\* ------------------------------------------------------- runtime operations
\* Each models one call into the runtime: [threw |-> whether it raised,
\* s |-> the state after].

\* MediaSource.removeSourceBuffer(b): NotFoundError unless b is in
\* m.sourceBuffers; the buffer leaves its parent.
removeSourceBuffer(s, m, b) ==
  IF s.sb[b].attached /\ s.sb[b].ms = m
    THEN [ threw |-> FALSE, s |-> [s EXCEPT !.sb[b].attached = FALSE] ]
    ELSE [ threw |-> TRUE, s |-> s ]

\* MediaSource.endOfStream(): InvalidStateError unless readyState is "open"
\* and no SourceBuffer of m is updating.
endOfStream(s, m) ==
  IF /\ s.msState[m] = "open"
     /\ \A x \in BufferIds :
          (s.sb[x].attached /\ s.sb[x].ms = m) => s.sb[x].updating = "no"
    THEN [ threw |-> FALSE, s |-> [s EXCEPT !.msState[m] = "ended"] ]
    ELSE [ threw |-> TRUE, s |-> s ]

\* audioEl.src = ...: the element drops the MediaSource it was attached to.
\* That MediaSource closes and its buffers leave it; an update still running
\* on one of them is aborted, and whether its updateend is still delivered
\* is the runtime's choice (deliver).  currentTime restarts at 0.
setAudioSrc(s, target, deliver) ==
  LET old == s.audioSrc
      dropped(x) == old \in SessionIds /\ s.sb[x].ms = old /\ s.sb[x].attached
      sb1 == [ x \in BufferIds |->
                 IF dropped(x)
                   THEN [ s.sb[x] EXCEPT
                            !.attached = FALSE,
                            !.updating = "no",
                            !.pend = 0,
                            !.from = 0,
                            !.events = IF s.sb[x].updating # "no" /\ deliver
                                         THEN @ + 1 ELSE @ ]
                   ELSE s.sb[x] ]
      ms1 == IF old \in SessionIds
               THEN [ s.msState EXCEPT ![old] = "closed" ] ELSE s.msState
  IN [ s EXCEPT !.audioSrc = target, !.currentTime = 0, !.sb = sb1,
                !.msState = ms1 ]

\* SourceBuffer.appendBuffer(data) for the n bytes of request i.  On the null
\* handle the call is a TypeError; on a buffer that left its parent or is
\* updating it is an InvalidStateError; otherwise the update starts.
appendBuffer(s, i, n) ==
  LET b == s.sourceBuffer IN
  IF b = Null
    THEN [ threw |-> TRUE, how |-> "null", s |-> s ]
  ELSE IF ~s.sb[b].attached
    THEN [ threw |-> TRUE, how |-> "detached", s |-> s ]
  ELSE IF s.sb[b].updating # "no"
    THEN [ threw |-> TRUE, how |-> "busy", s |-> s ]
  ELSE [ threw |-> FALSE, how |-> "ok",
         s |-> [ s EXCEPT !.sb[b].updating = "append", !.sb[b].pend = n,
                          !.sb[b].from = i ] ]

\* SourceBuffer.remove(start, end): InvalidStateError on a buffer that left
\* its parent or is updating, TypeError unless start < end.
remove(s, start, end) ==
  LET b == s.sourceBuffer IN
  IF ~s.sb[b].attached \/ s.sb[b].updating # "no" \/ end <= start
    THEN [ threw |-> TRUE, s |-> s ]
    ELSE [ threw |-> FALSE,
           s |-> [ s EXCEPT !.sb[b].updating = "remove", !.sb[b].pend = end ] ]

\* ------------------------------------------------------------ the player
\* clearTrackCache (lines 449-457, which reach lines 293-299): one
\* cache-invalidation signal for the track, whatever the transport.
clearTrackCache(s, trackToClear) ==
  [ s EXCEPT !.call.sigs = Append(@, trackToClear) ]

\* The session that was live is the one torn down.
tornDown(s) ==
  IF s.nSess > 0 /\ s.sess[s.nSess].st = "active"
    THEN [ s EXCEPT !.sess[s.nSess].st = "stopped", !.call.tore = s.nSess ]
    ELSE s

\* teardown with lines 432-439 outside any try: what the runtime raises
\* leaves the function at once.
teardownUncaught(s) ==
  LET m  == s.mediaSource
      b  == s.sourceBuffer
      s1 == [ s EXCEPT !.stopped = TRUE ]
      rm == IF b # Null /\ s1.msState[m] = "open" /\ s1.sb[b].updating = "no"
              THEN removeSourceBuffer(s1, m, b)
              ELSE [ threw |-> FALSE, s |-> s1 ]
      es == IF rm.threw THEN rm ELSE endOfStream(rm.s, m)
  IN IF m = Null THEN tornDown(s1)
     ELSE IF es.threw
       THEN tornDown([ es.s EXCEPT !.call.raised = TRUE, !.call.error = TRUE ])
     ELSE tornDown([ es.s EXCEPT !.mediaSource = Null, !.sourceBuffer = Null ])

\* stopAndMaybeClear up to the release of the handles (lines 428-443).  What
\* removeSourceBuffer or endOfStream raises is caught at line 439.
teardown(s) ==
  LET m  == s.mediaSource
      b  == s.sourceBuffer
      s1 == [ s EXCEPT !.stopped = TRUE ]
      \* lines 433-437
      rm == IF b # Null /\ s1.msState[m] = "open" /\ s1.sb[b].updating = "no"
              THEN removeSourceBuffer(s1, m, b)
              ELSE [ threw |-> FALSE, s |-> s1 ]
      \* line 438, skipped when line 435 threw
      es == IF rm.threw THEN rm ELSE endOfStream(rm.s, m)
      \* lines 441-442
      s2 == IF m # Null
              THEN [ es.s EXCEPT !.mediaSource = Null, !.sourceBuffer = Null,
                                 !.call.raised = es.threw ]
              ELSE s1
  IN tornDown(s2)

\* stopAndMaybeClear without lines 444-446.
stopNeverSignals(s, oldTrackId) == teardown(s)

\* stopAndMaybeClear (lines 427-447).  It holds no await: it runs in one go.
stopAndMaybeClear(s, oldTrackId) ==
  LET s3 == teardown(s) IN
  IF oldTrackId # NoTrack /\ ~s3.repeatMode
    THEN clearTrackCache(s3, oldTrackId)
    ELSE s3

\* removeRange with the window taken off the end as well.
removeRangeWindowed(start, current, maxSeconds) ==
  IF current - start > maxSeconds
    THEN << start, start + (current - start - maxSeconds - TrimMargin) >>
    ELSE << >>

\* removeRange with >= for >.
removeRangeInclusive(start, current, maxSeconds) ==
  IF current - start >= maxSeconds
    THEN << start, start + (current - start - TrimMargin) >>
    ELSE << >>

\* removeRange with the buffered start left out of the end.
removeRangeFromZero(start, current, maxSeconds) ==
  IF current - start > maxSeconds
    THEN << start, current - start - TrimMargin >>
    ELSE << >>

\* The range trimBuffer removes (lines 363-364): none unless the span from
\* the buffered start to the playback position exceeds maxSeconds.
removeRange(start, current, maxSeconds) ==
  IF current - start > maxSeconds
    THEN << start, start + (current - start - TrimMargin) >>
    ELSE << >>

\* trimBuffer (lines 357-368).  Whatever the runtime throws is swallowed.
trimBuffer(s, maxSeconds) ==
  LET b == s.sourceBuffer IN
  IF b = Null \/ s.sb[b].bufStart = -1
    THEN [ s EXCEPT !.ev.trim = [ called |-> TRUE, empty |-> TRUE,
                                  start |-> -1, current |-> s.currentTime,
                                  max |-> maxSeconds, range |-> << >> ] ]
    ELSE
      LET start   == s.sb[b].bufStart
          current == s.currentTime
          range   == removeRange(start, current, maxSeconds)
          t       == [ called |-> TRUE, empty |-> FALSE, start |-> start,
                       current |-> current, max |-> maxSeconds,
                       range |-> range ]
      IN IF range = << >>
           THEN [ s EXCEPT !.ev.trim = t ]
           ELSE LET r == remove(s, range[1], range[2]) IN
                [ r.s EXCEPT !.ev.trim = t,
                             !.ev.remove = IF r.threw THEN "threw" ELSE "ok" ]

\* fetchAndAppendNext up to its first await (lines 370-379): the guard, then
\* the request for the next window.
fetchAndAppendNext(s) ==
  IF \/ s.isAppending
     \/ s.fetching
     \/ s.sourceBuffer = Null
     \/ s.sb[s.sourceBuffer].updating # "no"
    THEN s
    ELSE
      LET start == s.nextSegmentStart
          end   == start + SEGMENT_SIZE - 1
          r     == [ sess |-> s.nSess, track |-> s.trackId, src |-> s.srcParam,
                     start |-> start, end |-> end, phase |-> "headers",
                     status |-> 0 ]
      IN [ s EXCEPT !.fetching = TRUE,
                    !.reqs = Append(@, r),
                    !.ev.fetch = Len(s.reqs) + 1 ]

\* Whether the response counts as a success (line 380): resp.ok is a status
\* in 200..299.
respOk(status) == status >= 200 /\ status <= 299
failedStatus(status) == ~respOk(status) /\ status # 206 /\ status # 200

\* The response of request i arrives (lines 379-384).  A request keeps the
\* status of its response while its body is read.
onResponse(s, i, status) ==
  IF failedStatus(status)
    THEN [ s EXCEPT !.fetching = FALSE, !.reqs[i].phase = "done",
                    !.ev.status = status, !.ev.before = s.nextSegmentStart,
                    !.ev.failed = TRUE,
                    !.halted = @ \/ s.reqs[i].sess = s.nSess ]
    ELSE [ s EXCEPT !.reqs[i].phase = "body", !.reqs[i].status = status,
                    !.ev.status = status, !.ev.before = s.nextSegmentStart ]

\* The body of request i arrives, n bytes (lines 384-392).
onBody(s, i, n) ==
  LET s1 == [ s EXCEPT !.isAppending = TRUE, !.reqs[i].phase = "done",
                       !.reqs[i].status = 0,
                       !.ev.status = s.reqs[i].status ]
      a  == appendBuffer(s1, i, n)
      s2 == IF a.threw
              THEN a.s                \* line 387 is skipped, line 389 logs
              ELSE [ a.s EXCEPT !.nextSegmentStart = @ + n ]
  IN [ s2 EXCEPT !.fetching = FALSE,
                 !.ev.append = a.how,
                 !.ev.appendTo = s.sourceBuffer,
                 !.ev.appendReq = i,
                 !.ev.n = n,
                 !.ev.before = s.nextSegmentStart ]

\* fetch or arrayBuffer rejects (lines 388-392).
onFetchError(s, i) ==
  [ s EXCEPT !.fetching = FALSE, !.reqs[i].phase = "done",
             !.reqs[i].status = 0,
             !.ev.failed = TRUE,
             !.halted = @ \/ s.reqs[i].sess = s.nSess ]

\* onUpdateEnd (lines 351-355).
onUpdateEnd(s) ==
  LET s1 == [ s EXCEPT !.isAppending = FALSE ]
      s2 == trimBuffer(s1, TrimWindow)
  IN IF ~s2.stopped THEN fetchAndAppendNext(s2) ELSE s2

\* onSourceOpen (lines 339-349).  supported is the runtime's answer at line
\* 341 (a runtime where the call itself raises leaves the state as the
\* unsupported branch does); accepts is whether addSourceBuffer takes one
\* more buffer on a MediaSource that already has one (QuotaExceededError if
\* not).  addSourceBuffer raises InvalidStateError unless readyState is open.
onSourceOpen(s, supported, accepts) ==
  LET m == s.mediaSource IN
  IF m = Null THEN s
  ELSE IF ~supported THEN s
  ELSE IF s.msState[m] # "open" THEN s
  ELSE IF (\E x \in BufferIds : s.sb[x].attached /\ s.sb[x].ms = m) /\ ~accepts
    THEN s
  ELSE
    LET b  == s.nSB + 1
        s1 == [ s EXCEPT !.nSB = b,
                         !.sb[b] = [ NoBuffer EXCEPT !.ms = m,
                                                     !.attached = TRUE ],
                         !.sourceBuffer = b ]
    IN fetchAndAppendNext(s1)

\* startTrack up to its await (line 320).
startTrackBegin(s, track, src) ==
  LET s1 == stopAndMaybeClear(s, s.trackId) IN
  [ s1 EXCEPT !.mq = Append(@, [ k |-> "startTrack", track |-> track,
                                 src |-> src ]) ]

\* startTrack after its await (lines 321-337).
startTrackResume(s, track, src, deliver) ==
  LET id == s.nSess + 1
      s1 == [ s EXCEPT !.trackId = track, !.srcParam = src,
                       !.stopped = FALSE, !.nextSegmentStart = 0,
                       !.nSess = id, !.halted = FALSE,
                       !.sess[id] = [ NoSession EXCEPT !.track = track,
                                                       !.st = "active" ] ]
  IN IF ~s1.hasMSE
       THEN setAudioSrc(s1, DirectUrl, deliver)
       ELSE LET s2 == [ s1 EXCEPT !.mediaSource = id,
                                  !.msState[id] = "closed" ]
            IN setAudioSrc(s2, id, deliver)

\* startTrack from its call to its end (lines 319-337): the await of line 320
\* is on a promise already resolved, so the rest runs as the next microtask.
\* The player's variables after it do not depend on the runtime's choices.
startTrack(s, track, src) ==
  LET s1 == startTrackBegin(s, track, src)
  IN startTrackResume([ s1 EXCEPT !.mq = Tail(@) ], track, src, TRUE)

\* nextTrack / prevTrack up to the await of line 404 / 409; with no track
\* there is no await and startTrack is entered at once.
nextTrackBegin(s, newTrackId, newSrc) ==
  IF s.trackId # NoTrack
    THEN LET s1 == clearTrackCache(s, s.trackId) IN
         [ s1 EXCEPT !.mq = Append(@, [ k |-> "nextTrack", track |-> newTrackId,
                                        src |-> newSrc ]) ]
    ELSE startTrackBegin(s, newTrackId, newSrc)

prevTrackBegin(s, newTrackId, newSrc) ==
  IF s.trackId # NoTrack
    THEN LET s1 == clearTrackCache(s, s.trackId) IN
         [ s1 EXCEPT !.mq = Append(@, [ k |-> "prevTrack", track |-> newTrackId,
                                        src |-> newSrc ]) ]
    ELSE startTrackBegin(s, newTrackId, newSrc)

\* closeTrack up to its await (line 414).
closeTrackBegin(s) ==
  LET s1 == stopAndMaybeClear(s, s.trackId) IN
  [ s1 EXCEPT !.mq = Append(@, [ k |-> "closeTrack", track |-> NoTrack,
                                 src |-> NoTrack ]) ]

\* closeTrackResume without the trackId test of line 415.
closeTrackResumeUnguarded(s) ==
  LET s1 == IF ~s.repeatMode THEN clearTrackCache(s, s.trackId) ELSE s
  IN [ s1 EXCEPT !.trackId = NoTrack, !.srcParam = NoTrack ]

\* closeTrack after its await (lines 415-419).
closeTrackResume(s) ==
  LET s1 == IF ~s.repeatMode /\ s.trackId # NoTrack
              THEN clearTrackCache(s, s.trackId) ELSE s
  IN [ s1 EXCEPT !.trackId = NoTrack, !.srcParam = NoTrack ]

\* toggleRepeat (lines 422-424).
toggleRepeat(s) == [ s EXCEPT !.repeatMode = ~@ ]

\* ------------------------------------------------------------------ steps
\* The inputs explored.  Track ids are interchangeable: the first session's
\* is T1.
SessionLimit == IF wide THEN WideSessions ELSE MaxSessions
TrackInputs  == IF wide \/ nSess = 0 THEN {"T1"} ELSE Tracks
StatusInputs == IF wide THEN {200} ELSE Statuses
SizeInputs   == IF wide THEN {SEGMENT_SIZE} ELSE BodySizes
TimeInputs   == IF wide THEN WideTimes ELSE Times

Init ==
  /\ mediaSource = Null
  /\ sourceBuffer = Null
  /\ trackId = NoTrack
  /\ srcParam = NoTrack
  /\ nextSegmentStart = 0
  /\ isAppending = FALSE
  /\ fetching = FALSE
  /\ repeatMode = FALSE
  /\ stopped = FALSE
  /\ hasMSE \in BOOLEAN
  /\ audioSrc = Null
  /\ currentTime = 0
  /\ msState = [ m \in SessionIds |-> "none" ]
  /\ openQ = << >>
  /\ sb = [ b \in BufferIds |-> NoBuffer ]
  /\ nSB = 0
  /\ reqs = << >>
  /\ mq = << >>
  /\ sess = [ x \in SessionIds |-> NoSession ]
  /\ nSess = 0
  /\ call = NoCall
  /\ ev = Quiet("init", 0)
  /\ halted = FALSE
  /\ wide \in BOOLEAN
  /\ wide => hasMSE

\* The state as a task that calls the exported function op starts.
Enter(op, track, src) ==
  [ Cur EXCEPT !.call = [ op |-> op, track |-> track, src |-> src,
                          pre |-> Player(Cur), sigs |-> << >>, tore |-> 0,
                          raised |-> FALSE, error |-> FALSE,
                          done |-> FALSE, post |-> Player(Cur) ],
               !.ev = Quiet(op, 0) ]

\* The same, with what startTrack called in that state with the same
\* arguments ends with: the player's variables and the signals sent.
WithRef(e) ==
  LET r == startTrack(e, e.call.track, e.call.src)
  IN [ e EXCEPT !.call = @ @@ [ ref |-> [ post |-> Player(r),
                                          sigs |-> r.call.sigs ] ] ]

\* The state as a task that delivers an event or a completion starts.
Deliver(h, by) == [ Cur EXCEPT !.call = NoCall, !.ev = Quiet(h, by) ]

\* The state as the microtask at the head of the queue starts.
Resume == [ Cur EXCEPT !.mq = Tail(@) ]

\* The exported call has run to its end.
Finish(s) == [ s EXCEPT !.call.done = TRUE, !.call.post = Player(s) ]

CallStartTrack ==
  /\ mq = << >>
  /\ nSess < SessionLimit
  /\ \E track \in TrackInputs, src \in Srcs :
       Commit(startTrackBegin(Enter("startTrack", track, src), track, src))

CallNextTrack ==
  /\ ~wide
  /\ mq = << >>
  /\ nSess < SessionLimit
  /\ \E track \in TrackInputs, src \in Srcs :
       Commit(nextTrackBegin(WithRef(Enter("nextTrack", track, src)),
                             track, src))

CallPrevTrack ==
  /\ ~wide
  /\ mq = << >>
  /\ nSess < SessionLimit
  /\ \E track \in TrackInputs, src \in Srcs :
       Commit(prevTrackBegin(WithRef(Enter("prevTrack", track, src)),
                             track, src))

CallCloseTrack ==
  /\ ~wide
  /\ mq = << >>
  /\ Commit(closeTrackBegin(Enter("closeTrack", NoTrack, NoTrack)))

CallToggleRepeat ==
  /\ ~wide
  /\ mq = << >>
  /\ Commit(Finish(toggleRepeat(Enter("toggleRepeat", NoTrack, NoTrack))))

\* line 405 / 410: startTrack is entered, and not awaited.
ResumeNextTrack ==
  /\ mq # << >>
  /\ Head(mq).k \in {"nextTrack", "prevTrack"}
  /\ Commit(startTrackBegin(Resume, Head(mq).track, Head(mq).src))

ResumeStartTrack ==
  /\ mq # << >>
  /\ Head(mq).k = "startTrack"
  /\ \E deliver \in BOOLEAN :
       Commit(Finish(startTrackResume(Resume, Head(mq).track, Head(mq).src,
                                      deliver)))

ResumeCloseTrack ==
  /\ mq # << >>
  /\ Head(mq).k = "closeTrack"
  /\ Commit(Finish(closeTrackResume(Resume)))

\* The audio element attaches the MediaSource its src designates: readyState
\* becomes "open" and sourceopen is queued.
Attach ==
  /\ mq = << >>
  /\ audioSrc \in SessionIds
  /\ msState[audioSrc] = "closed"
  /\ Commit([ Deliver("attach", audioSrc) EXCEPT
                !.msState[audioSrc] = "open",
                !.openQ = Append(@, audioSrc) ])

SourceOpenEvent ==
  /\ mq = << >>
  /\ openQ # << >>
  /\ \E supported \in BOOLEAN, accepts \in BOOLEAN :
       LET s0 == [ Deliver("sourceopen", Head(openQ)) EXCEPT !.openQ = Tail(@) ]
           s1 == onSourceOpen(s0, supported, accepts)
       IN Len(s1.reqs) <= MaxFetches /\ Commit(s1)

FetchResponse ==
  /\ mq = << >>
  /\ \E i \in 1..Len(reqs), status \in StatusInputs :
       /\ reqs[i].phase = "headers"
       /\ Commit(onResponse(Deliver("response", reqs[i].sess), i, status))

FetchBody ==
  /\ mq = << >>
  /\ \E i \in 1..Len(reqs), n \in SizeInputs \cup {0} :
       /\ reqs[i].phase = "body"
       /\ NullBody(reqs[i].status) <=> n = 0
       /\ Commit(onBody(Deliver("body", reqs[i].sess), i, n))

FetchError ==
  /\ ~wide
  /\ mq = << >>
  /\ \E i \in 1..Len(reqs) :
       /\ reqs[i].phase \in {"headers", "body"}
       /\ Commit(onFetchError(Deliver("fetcherror", reqs[i].sess), i))

\* The runtime finishes the update running on buffer b: the bytes land (the
\* buffered range then starts at 0 if it was empty and there are bytes), or
\* the range is gone
\* (the buffered range then starts at its end); updateend is queued.
UpdateComplete ==
  /\ mq = << >>
  /\ \E b \in BufferIds :
       /\ sb[b].updating # "no"
       /\ LET r == sb[b]
              done == IF r.updating = "append"
                        THEN [ r EXCEPT
                                 !.data = Append(@, [ req |-> r.from, n |-> r.pend ]),
                                 !.bufStart = IF @ = -1 /\ r.pend > 0
                                                THEN 0 ELSE @ ]
                        ELSE [ r EXCEPT !.bufStart = r.pend ]
          IN Commit([ Deliver("updated", r.ms) EXCEPT
                        !.sb[b] = [ done EXCEPT !.updating = "no", !.pend = 0,
                                                !.from = 0, !.events = @ + 1 ] ])

UpdateEndEvent ==
  /\ mq = << >>
  /\ \E b \in BufferIds :
       /\ sb[b].events > 0
       /\ LET s0 == [ Deliver("updateend", sb[b].ms) EXCEPT !.sb[b].events = @ - 1 ]
              s1 == onUpdateEnd(s0)
          IN Len(s1.reqs) <= MaxFetches /\ Commit(s1)

\* Playback moves on within what the attached MediaSource has buffered.
Play ==
  /\ mq = << >>
  /\ audioSrc \in SessionIds
  /\ \E b \in BufferIds, t \in TimeInputs :
       /\ sb[b].attached /\ sb[b].ms = audioSrc /\ sb[b].bufStart # -1
       /\ t > currentTime /\ t >= sb[b].bufStart
       /\ Commit([ Deliver("timeupdate", audioSrc) EXCEPT !.currentTime = t ])

Next ==
  \/ CallStartTrack
  \/ CallNextTrack
  \/ CallPrevTrack
  \/ CallCloseTrack
  \/ CallToggleRepeat
  \/ ResumeNextTrack
  \/ ResumeStartTrack
  \/ ResumeCloseTrack
  \/ Attach
  \/ SourceOpenEvent
  \/ FetchResponse
  \/ FetchBody
  \/ FetchError
  \/ UpdateComplete
  \/ UpdateEndEvent
  \/ Play

Spec == Init /\ [][Next]_vars

\* What the runtime owes the player: a microtask runs, the element attaches
\* the MediaSource it was given, a queued event is dispatched, an update that
\* started finishes, and a request ends one way or another (response, body or
\* error).  Calls of the exported functions and playback owe nothing.
RequestEnds == FetchResponse \/ FetchBody \/ FetchError
Microtask == ResumeNextTrack \/ ResumeStartTrack \/ ResumeCloseTrack
Fairness ==
  /\ WF_vars(Microtask)
  /\ WF_vars(Attach)
  /\ WF_vars(SourceOpenEvent)
  /\ WF_vars(RequestEnds)
  /\ WF_vars(UpdateComplete)
  /\ WF_vars(UpdateEndEvent)
SpecLive == Init /\ [][Next]_vars /\ Fairness

\* ----------------------------------------------------------------- claims
Range(f) == { f[i] : i \in DOMAIN f }
InCall == call.op # "none"
Switches == {"startTrack", "nextTrack", "prevTrack"}
\* The callbacks that belong to one session: a completion of its request, an
\* updateend of its buffer.
Completions == {"response", "body", "fetcherror", "updateend"}
Held(b) == b <= nSB /\ sess[sb[b].ms].st = "active"

\* C1: at most one session is not stopped at any time, and at most one decode
\* buffer (SourceBuffer) belongs to a session that is not stopped: none is
\* created while an earlier one is still held.
C1_OneSession ==
  /\ Cardinality({ x \in SessionIds : sess[x].st = "active" }) <= 1
  /\ Cardinality({ b \in BufferIds : Held(b) }) <= 1

\* C2: a fetch completion or updateend of a stopped session makes no fetch,
\* no appendBuffer call and no remove call.
C2_StoppedIsInert ==
  (ev.h \in Completions /\ sess[ev.by].st = "stopped") =>
     /\ ev.fetch = 0
     /\ ev.append \in {"none", "null"}
     /\ ev.remove = "none"

\* C3: appendBuffer is never called on a buffer with an update pending.
C3_NoAppendWhileUpdating == ev.append # "busy"

\* C4: after a switch from one track to another, the first request of the
\* new session is bytes=0-262143, and its buffer receives no bytes of a
\* request the earlier session made.
FirstOf(i) == \A j \in 1..(i - 1) : reqs[j].sess # reqs[i].sess
SwitchedTrack ==
  \A x, y \in 1..nSess : x # y => sess[x].track # sess[y].track
C4_NewSessionStartsAtZero ==
  SwitchedTrack =>
    /\ \A i \in 1..Len(reqs) :
         FirstOf(i) => reqs[i].start = 0 /\ reqs[i].end = SEGMENT_SIZE - 1
    /\ \A b \in BufferIds :
         /\ sb[b].updating = "append" => reqs[sb[b].from].sess = sb[b].ms
         /\ \A k \in 1..Len(sb[b].data) :
              reqs[sb[b].data[k].req].sess = sb[b].ms

\* C5: closeTrack with no session active ends with no track, no decode buffer
\* and stopped set, changes nothing else (nothing at all when stopped was
\* already set), and sends no signal.
C5_CloseIdempotent ==
  (call.op = "closeTrack" /\ call.done /\ call.pre.trackId = NoTrack) =>
     /\ call.post = [ call.pre EXCEPT !.stopped = TRUE ]
     /\ call.post.trackId = NoTrack
     /\ call.post.mediaSource = Null
     /\ call.post.sourceBuffer = Null
     /\ call.sigs = << >>
C5_Witness ==
  /\ call.op = "closeTrack" /\ call.done /\ call.pre.trackId = NoTrack
  /\ call.pre.stopped /\ nSess > 0 /\ call.post = call.pre

\* C6: every request asks for [nextSegmentStart, nextSegmentStart + 262143],
\* and a body of n bytes that arrives for a session still live is appended
\* and moves nextSegmentStart on by n.
C6_RangeAndAdvance ==
  /\ \A i \in 1..Len(reqs) : reqs[i].end = reqs[i].start + SEGMENT_SIZE - 1
  /\ ev.fetch # 0 => reqs[ev.fetch].start = nextSegmentStart
  /\ (ev.h = "body" /\ sess[ev.by].st = "active") =>
       /\ ev.append = "ok"
       /\ sb[ev.appendTo].pend = ev.n
       /\ nextSegmentStart = ev.before + ev.n

\* trimBuffer ran with buffered start 0 s, position 40 s, window 30 s.
TrimCase == ev.trim.called /\ ~ev.trim.empty /\ ev.trim.start = 0
            /\ ev.trim.current = 40 /\ ev.trim.max = 30
\* C7 as stated: in that case the removal range is [0, 5].
C7_AsStated == TrimCase => ev.trim.range = << 0, 5 >>
\* C7 as amended: in that case the removal range is [0, 35] (end = 40 - 5).
C7_RangeKeepsMargin == TrimCase => ev.trim.range = << 0, 35 >>
C7_Witness == TrimCase /\ ev.remove = "ok"

\* C8: trimBuffer makes no remove call when nothing is buffered or
\* current - start <= maxSeconds, and makes one only when it is larger.
C8_TrimOnlyPastWindow ==
  ev.trim.called =>
     /\ (ev.trim.empty \/ ev.trim.current - ev.trim.start <= ev.trim.max)
          => ev.remove = "none"
     /\ ev.remove # "none"
          => ~ev.trim.empty /\ ev.trim.current - ev.trim.start > ev.trim.max
C8_Witness ==
  /\ ev.trim.called /\ ~ev.trim.empty /\ ev.trim.start = 0
  /\ ev.trim.current = 5 /\ ev.trim.max = 30 /\ ev.remove = "none"

\* C9: a teardown with repeat off signals the track torn down, and no request
\* of a later session exists by then.
C9_TeardownSignals ==
  (InCall /\ call.tore # 0 /\ ~call.pre.repeatMode) =>
     /\ sess[call.tore].track \in Range(call.sigs)
     /\ \A i \in 1..Len(reqs) : reqs[i].sess <= call.tore
C9_Witness ==
  /\ InCall /\ call.op \in Switches /\ call.done /\ call.tore # 0
  /\ ~call.pre.repeatMode /\ sess[call.tore].track \in Range(call.sigs)
  /\ sess[nSess].track # sess[call.tore].track

\* C10: with repeat on, no call signals cache invalidation.
C10_RepeatSuppresses ==
  (InCall /\ call.op # "toggleRepeat" /\ call.pre.repeatMode) =>
     call.sigs = << >>

\* C11: nextTrack / prevTrack end with the player's variables startTrack
\* would end with from the same state, and send the signals it would send.
C11_NextIsStart ==
  (call.op \in {"nextTrack", "prevTrack"} /\ call.done) =>
     /\ call.post = call.ref.post
     /\ call.sigs = call.ref.sigs

\* C12: appendBuffer is called only with the body of a response with status
\* 200 or 206, and a response with any other status leaves nextSegmentStart
\* as it was.
C12_OnlyOkStatuses ==
  /\ ev.append # "none" => ev.status \in {200, 206}
  /\ (ev.h \in {"response", "body"} /\ ev.status \notin {200, 206})
       => nextSegmentStart = ev.before

\* C13: the step in which a request fails clears fetching and leaves
\* nextSegmentStart, the buffers and stopped as they were; and once a request
\* of the latest session has failed, no fetch is made and appendBuffer is not
\* called until startTrack begins a new session.
C13_FailureStep ==
  [][ ev'.failed =>
        /\ ~fetching'
        /\ nextSegmentStart' = nextSegmentStart
        /\ sb' = sb
        /\ sourceBuffer' = sourceBuffer
        /\ stopped' = stopped ]_vars
C13_HaltedStays ==
  halted => ev.fetch = 0 /\ ev.append \in {"none", "null"}
C13_FailureHalts == C13_FailureStep /\ []C13_HaltedStays

\* C14: once onSourceOpen has created the buffer of the latest session, a
\* request of that session is eventually issued, unless the session is
\* stopped first (or the requests explored are used up): the session does
\* not stay for ever with its buffer and without a request.
Opened(k) == \E b \in 1..nSB : sb[b].ms = k
Requested(k) == \E i \in 1..Len(reqs) : reqs[i].sess = k
Waiting ==
  /\ nSess > 0 /\ sess[nSess].st = "active" /\ Opened(nSess)
  /\ ~Requested(nSess) /\ Len(reqs) < MaxFetches
C14_FirstFetchHappens == Waiting ~> ~Waiting

\* C15: at most one request is in flight, no append is pending when one is,
\* and so no request is initiated while an append is pending and no append
\* is started while a request is in flight.
InFlight == { i \in 1..Len(reqs) : reqs[i].phase # "done" }
Appending == { b \in BufferIds : sb[b].updating = "append" }
C15_NoOverlap ==
  /\ Cardinality(InFlight) <= 1
  /\ InFlight # {} => Appending = {}
  /\ Cardinality(Appending) <= 1

\* C16: when stopAndMaybeClear returns, stopped is set, mediaSource and
\* sourceBuffer are null and no error has left it, whether or not
\* removeSourceBuffer or endOfStream raised.
AfterStop == mq # << >> /\ Head(mq).k \in {"startTrack", "closeTrack"}
C16_TeardownCompletes ==
  AfterStop =>
     /\ stopped
     /\ mediaSource = Null
     /\ sourceBuffer = Null
     /\ ~call.error
C16_Witness ==
  /\ AfterStop /\ call.raised /\ ~call.error
  /\ call.pre.sourceBuffer # Null
  /\ sb[call.pre.sourceBuffer].updating # "no"
  /\ stopped /\ mediaSource = Null /\ sourceBuffer = Null

\* C17: when trimBuffer calls remove, the range starts at the buffered start,
\* ends 5 s before the playback position, and is not empty.
C17_RemovalRange ==
  ev.remove # "none" =>
     /\ ev.trim.range = << ev.trim.start, ev.trim.current - 5 >>
     /\ ev.trim.range[1] < ev.trim.range[2]
     /\ ev.trim.range[2] + 5 <= ev.trim.current
C17_Witness ==
  /\ ev.remove = "ok" /\ ev.trim.start = 35 /\ ev.trim.current = 75
  /\ ev.trim.range = << 35, 70 >>
  /\ sb[sourceBuffer].updating = "remove" /\ sb[sourceBuffer].pend = 70

\* C18: while isAppending is set an append is running on a buffer or its
\* updateend is still to be dispatched, and while fetching is set a request
\* is in flight.
C18_FlagsMeanWork ==
  /\ isAppending => \E b \in BufferIds :
                       sb[b].updating = "append" \/ sb[b].events > 0
  /\ fetching => InFlight # {}

\* C19: every chunk appended to a buffer comes from a request for the track
\* of the buffer's session, made at the offset equal to the bytes appended
\* to that buffer before it.
RECURSIVE BytesIn(_, _)
BytesIn(d, k) == IF k = 0 THEN 0 ELSE BytesIn(d, k - 1) + d[k].n
\* The chunks of buffer b, in order: those appended, then the one being
\* appended.
Chunks(b) ==
  IF sb[b].updating = "append"
    THEN Append(sb[b].data, [ req |-> sb[b].from, n |-> sb[b].pend ])
    ELSE sb[b].data
C19_OwnTrackPrefix ==
  \A b \in 1..nSB :
    \A k \in 1..Len(Chunks(b)) :
      /\ reqs[Chunks(b)[k].req].track = sess[sb[b].ms].track
      /\ reqs[Chunks(b)[k].req].start = BytesIn(Chunks(b), k - 1)

\* C20: a call that tears a session down with repeat off sends one signal,
\* for the track of that session, and no other.
C20_OneSignalPerTeardown ==
  (InCall /\ call.done /\ call.tore # 0 /\ ~call.pre.repeatMode) =>
     call.sigs = << sess[call.tore].track >>

=============================================================================
